---- MODULE Spec2Model ----
(***************************************************************************)
(* A model of clean_dataset.py: the sentence-pair cleaning pipeline that   *)
(* tokenizes a bilingual corpus, builds a frequency table, ranks and       *)
(* de-duplicates the pairs and emits cloze records.                        *)
(*                                                                         *)
(* A Python str is modelled as a sequence of one-character strings, so     *)
(* that splitting, stripping, replacing and capitalizing are computed on   *)
(* characters and not assumed.                                             *)
(***************************************************************************)
EXTENDS Integers, Sequences, FiniteSets, TLC

VARIABLES
    pc,             \* position in main() or in the function under study
    line, l,        \* words(): the argument and the returned token list
    corpus,         \* rows of FILE as read: [f1: field 1 (tl), f3: field 3 (en)]
    pairs,          \* main(): pairs
    tl_freq,        \* main(): tl_freq, a Counter
    tl_common,      \* main(): tl_common
    sorted_ret,     \* value returned by sort_pairs before main() rebinds pairs
    i,              \* number of pairs consumed by the running for-loop
    result, seen_en, seen_tl, skipped,   \* locals of remove_duplicates
    clozes, cloze_count_tl, skipped_limit, skipped_freq, rarest_tl,
                    \* locals of build_clozes
    log,            \* history: the branch build_clozes took for each pair
    err,            \* the exception that ended the run, or "none"
    all_csv         \* output/all.csv: whether it was written, and its rows

vars == <<pc, line, l, corpus, pairs, tl_freq, tl_common, sorted_ret, i,
          result, seen_en, seen_tl, skipped, clozes, cloze_count_tl,
          skipped_limit, skipped_freq, rarest_tl, log, err, all_csv>>

----------------------------------------------------------------------------
(* Bounds of the model.                                                    *)

\* longest line handed to words() on its own
MaxLineLen == 4
\* most rows in the corpus file of a whole run
MaxRows == 3
\* most pairs handed to sort_pairs on its own
MaxSortPairs == 3
\* most pairs handed to remove_duplicates on its own
MaxDedupePairs == 3
\* most pairs handed to build_clozes on its own
MaxClozePairs == 5
\* largest count in a frequency table drawn as an input
MaxFreq == 2
\* the common-word cutoff (5000 in the program), scaled to the model's
\* vocabulary so that some word falls below it
MOST_COMMON_WORDS_CUTOFF == 1

(* Program constants.                                                      *)
WORD_LIMIT == 15
CLOZE_LIMIT == 3

----------------------------------------------------------------------------
(* Characters and str methods.                                             *)

Whitespace == {" ", "\t"}
Digits == {"1"}

\* a character class that forgets the comma
WORD_BOUNDARY_NoComma == Whitespace \cup {".", "!", "?", "\""}

\* [\s,\.!?"]
WORD_BOUNDARY == Whitespace \cup {",", ".", "!", "?", "\""}

\* str.lower() on one character
LowerChar(c) == CASE c = "A" -> "a" [] c = "B" -> "b" [] c = "X" -> "x"
                  [] c = "Y" -> "y" [] OTHER -> c

\* str.upper() on one character
UpperChar(c) == CASE c = "a" -> "A" [] c = "b" -> "B" [] c = "x" -> "X"
                  [] c = "y" -> "Y" [] OTHER -> c

lower(s) == [k \in 1..Len(s) |-> LowerChar(s[k])]

\* str.capitalize(): first character upper-cased, the rest lower-cased
capitalize(s) ==
    [k \in 1..Len(s) |-> IF k = 1 THEN UpperChar(s[k]) ELSE LowerChar(s[k])]

\* str.strip(): leading and trailing whitespace removed
strip(s) ==
    LET inner == {k \in 1..Len(s) : s[k] \notin Whitespace}
    IN  IF inner = {} THEN <<>>
        ELSE LET a == CHOOSE k \in inner : \A j \in inner : k <= j
                 b == CHOOSE k \in inner : \A j \in inner : k >= j
             IN  SubSeq(s, a, b)

\* str.isdigit()
isdigit(s) == Len(s) > 0 /\ \A k \in 1..Len(s) : s[k] \in Digits

\* whether old occurs in s at position k
OccursAt(s, old, k) ==
    /\ k >= 1
    /\ k + Len(old) - 1 <= Len(s)
    /\ SubSeq(s, k, k + Len(old) - 1) = old

\* str.replace(old, new) for a non-empty old: every non-overlapping
\* occurrence, scanning left to right
RECURSIVE replace(_, _, _)
replace(s, old, new) ==
    IF Len(s) < Len(old) THEN s
    ELSE IF OccursAt(s, old, 1)
         THEN new \o replace(SubSeq(s, Len(old) + 1, Len(s)), old, new)
         ELSE <<s[1]>> \o replace(Tail(s), old, new)

\* re.split(pattern, s) for a pattern that is one character class: the
\* fragments between the matching characters, empty ones included
RECURSIVE re_split(_, _)
re_split(boundary, s) ==
    LET hits == {k \in 1..Len(s) : s[k] \in boundary}
    IN  IF hits = {} THEN <<s>>
        ELSE LET k == CHOOSE h \in hits : \A j \in hits : h <= j
             IN  <<SubSeq(s, 1, k - 1)>>
                     \o re_split(boundary, SubSeq(s, k + 1, Len(s)))

\* words(line)
words(ln) ==
    LET frags == re_split(WORD_BOUNDARY, ln)
        kept  == SelectSeq(frags, LAMBDA w : strip(w) # <<>>)
        l1    == [k \in 1..Len(kept) |-> strip(kept[k])]
    IN  SelectSeq(l1, LAMBDA w : ~isdigit(w))

\* all sequences over S of length at most n
SeqsUpTo(S, n) == UNION {[1..k -> S] : k \in 0..n}

----------------------------------------------------------------------------
(* Values: Pair, Counter, Cloze, and the outcome of a call that may raise. *)

\* Pair(en=en, en_words=words(en), tl=tl, tl_words=words(tl))
Pair(en, tl) ==
    [en |-> en, en_words |-> words(en), tl |-> tl, tl_words |-> words(tl)]

\* A Counter is the sequence of its items <<word, count>> in insertion order.
\* c[w], which is 0 for a missing key
Count(c, w) ==
    LET at == {k \in 1..Len(c) : c[k].w = w}
    IN  IF at = {} THEN 0 ELSE c[CHOOSE k \in at : TRUE].n

\* an update that stores 1 instead of adding 1
CounterAdd_Overwrite(c, w) ==
    IF \E k \in 1..Len(c) : c[k].w = w
    THEN [k \in 1..Len(c) |->
             IF c[k].w = w THEN [w |-> w, n |-> 1] ELSE c[k]]
    ELSE Append(c, [w |-> w, n |-> 1])

\* c.update({w: 1}) / one element of c.update(iterable)
CounterAdd(c, w) ==
    IF \E k \in 1..Len(c) : c[k].w = w
    THEN [k \in 1..Len(c) |->
             IF c[k].w = w THEN [w |-> w, n |-> c[k].n + 1] ELSE c[k]]
    ELSE Append(c, [w |-> w, n |-> 1])

\* c.update(sentence)
CounterUpdate(c, sentence) ==
    LET acc[k \in 0..Len(sentence)] ==
            IF k = 0 THEN c ELSE CounterAdd(acc[k - 1], sentence[k])
    IN  acc[Len(sentence)]

Return(v) == [ok |-> TRUE, exc |-> "none", val |-> v]
Raise(e) == [ok |-> FALSE, exc |-> e, val |-> <<>>]

\* the elements of a sequence
Elements(s) == {s[k] : k \in 1..Len(s)}

\* a > b for two keys; a key is kept as the fraction num/den, den > 0
KeyGt(a, b) == a.num * b.den > b.num * a.den

\* sorted(s, key=key, reverse=True), key a function on the elements of s:
\* the stable descending order, elements of equal key in their original order
sorted_reverse(s, key) ==
    LET Insert(acc, x) ==
            LET p == Cardinality({j \in 1..Len(acc) :
                                     \A m \in 1..j :
                                         ~KeyGt(key[x], key[acc[m]])})
            IN  SubSeq(acc, 1, p) \o <<x>> \o SubSeq(acc, p + 1, Len(acc))
        acc[k \in 0..Len(s)] ==
            IF k = 0 THEN <<>> ELSE Insert(acc[k - 1], s[k])
    IN  acc[Len(s)]

\* c.most_common(n): the n items of highest count, ties in insertion order
most_common_n(c, n) ==
    LET all == sorted_reverse(c, [item \in Elements(c) |->
                                     [num |-> item.n, den |-> 1]])
    IN  SubSeq(all, 1, IF n < Len(all) THEN n ELSE Len(all))

----------------------------------------------------------------------------
(* Frequency table.                                                        *)

\* c.most_common(1)[0][0]: indexing the empty list raises IndexError
most_common(c) ==
    LET top == most_common_n(c, 1)
    IN  IF top = <<>> THEN Raise("IndexError") ELSE Return(top[1].w)

\* min(c.values()) raises ValueError on an empty Counter
least_common(c) ==
    IF c = <<>> THEN Raise("ValueError")
    ELSE LET min_frequency ==
                 CHOOSE m \in {c[k].n : k \in 1..Len(c)} :
                     \A k \in 1..Len(c) : m <= c[k].n
             least_common_items ==
                 SelectSeq(c, LAMBDA item : item.n = min_frequency)
         IN  Return(least_common_items[1].w)

\* total / n, kept as the fraction; n = 0 raises ZeroDivisionError
counter_avg(c) ==
    LET sum[k \in 0..Len(c)] == IF k = 0 THEN 0 ELSE sum[k - 1] + c[k].n
    IN  IF Len(c) = 0 THEN Raise("ZeroDivisionError")
        ELSE Return([num |-> sum[Len(c)], den |-> Len(c)])

\* language_frequency_table(sentences): the table, or the first exception
\* raised while reporting its statistics
language_frequency_table(sentences) ==
    LET acc[k \in 0..Len(sentences)] ==
            IF k = 0 THEN <<>> ELSE CounterUpdate(acc[k - 1], sentences[k])
        table == acc[Len(sentences)]
        first == most_common(table)
        last  == least_common(table)
        avg   == counter_avg(table)
    IN  IF ~first.ok THEN first
        ELSE IF ~last.ok THEN last
        ELSE IF ~avg.ok THEN avg
        ELSE Return(table)

\* set([p[0] for p in c.most_common(MOST_COMMON_WORDS_CUTOFF)])
most_common_words(c) ==
    LET top == most_common_n(c, MOST_COMMON_WORDS_CUTOFF)
    IN  {top[k].w : k \in 1..Len(top)}

----------------------------------------------------------------------------
(* Ranking.                                                                *)

\* sum(tbl[w] for w in words) / len(words), kept as the fraction num/den
avg_freq(ws, tbl) ==
    LET sum[k \in 0..Len(ws)] ==
            IF k = 0 THEN 0 ELSE sum[k - 1] + Count(tbl, ws[k])
    IN  [num |-> sum[Len(ws)], den |-> Len(ws)]

\* a sort key that forgets the division by the length
score_MeanOnly(p, tbl) == avg_freq(p.tl_words, tbl)

\* the sort key avg_freq(p.tl_words, tl_freq) / len(p.tl_words), as a
\* fraction.  For sentences of at most 8 words the IEEE doubles the program
\* compares are ordered exactly as these fractions are.
score(p, tbl) ==
    LET a == avg_freq(p.tl_words, tbl)
    IN  [num |-> a.num, den |-> a.den * Len(p.tl_words)]

\* sort_pairs(pairs, tl_freq)
sort_pairs(ps, tbl) ==
    sorted_reverse(ps, [p \in Elements(ps) |-> score(p, tbl)])

----------------------------------------------------------------------------
(* De-duplication.                                                         *)

\* text.replace("!", "").replace(".", "").replace(",", "").strip()
stripped(text) ==
    strip(replace(replace(replace(text, <<"!">>, <<>>), <<".">>, <<>>),
                  <<",">>, <<>>))

\* a duplicate test that looks at the English text only
IsDuplicate_EnOnly(pair, s_en, s_tl) == stripped(pair.en) \in s_en

\* the branch of the loop body of remove_duplicates that drops the pair
IsDuplicate(pair, s_en, s_tl) ==
    IF stripped(pair.en) \in s_en THEN TRUE
    ELSE IF stripped(pair.tl) \in s_tl THEN TRUE
    ELSE FALSE

----------------------------------------------------------------------------
(* Cloze building.                                                         *)

\* val < smallest_value, where smallest_value starts as float("inf")
LessThan(val, smallest) == smallest.inf \/ val < smallest.v

\* a variant of minimize that lets a later element of equal value win
minimize_LastWins(lst, fn) ==
    LET st[k \in 0..Len(lst)] ==
            IF k = 0 THEN [smallest_index |-> 0,
                           smallest_value |-> [inf |-> TRUE, v |-> 0]]
            ELSE LET val == fn[lst[k]]
                 IN  IF LessThan(val, st[k - 1].smallest_value)
                        \/ val = st[k - 1].smallest_value.v
                     THEN [smallest_index |-> k - 1,
                           smallest_value |-> [inf |-> FALSE, v |-> val]]
                     ELSE st[k - 1]
    IN  lst[st[Len(lst)].smallest_index + 1]

\* minimize(lst, fn), for a non-empty lst and fn a function on its
\* elements; st[k] is the pair
\* (smallest_index, smallest_value) after k iterations of the loop
minimize(lst, fn) ==
    LET st[k \in 0..Len(lst)] ==
            IF k = 0 THEN [smallest_index |-> 0,
                           smallest_value |-> [inf |-> TRUE, v |-> 0]]
            ELSE LET val == fn[lst[k]]
                 IN  IF LessThan(val, st[k - 1].smallest_value)
                     THEN [smallest_index |-> k - 1,
                           smallest_value |-> [inf |-> FALSE, v |-> val]]
                     ELSE st[k - 1]
    IN  lst[st[Len(lst)].smallest_index + 1]

\* minimize(pair.tl_words, lambda w: tl_freq[w])
Rarest(pair, tbl) ==
    minimize(pair.tl_words, [w \in Elements(pair.tl_words) |-> Count(tbl, w)])

\* a limit test that is off by one
LimitReached_OffByOne(cnt, w) == Count(cnt, w) = CLOZE_LIMIT + 1

\* cloze_count_tl[rarest_tl] == CLOZE_LIMIT
LimitReached(cnt, w) == Count(cnt, w) = CLOZE_LIMIT

\* variants of the common-word test: inverted, and missing
NotCommon_Inverted(w, common) == w \in common
NotCommon_Never(w, common) == FALSE

\* rarest_tl not in tl_common
NotCommon(w, common) == w \notin common

\* the if / elif / else of the loop body of build_clozes
Branch(cnt, w, common) ==
    IF LimitReached(cnt, w) THEN "limit"
    ELSE IF NotCommon(w, common) THEN "freq"
    ELSE "cloze"

\* "{{c1::" + rarest_tl + "}}"
Markup(w) == <<"{", "{", "c", "1", ":", ":">> \o w \o <<"}", "}">>

\* Cloze(tl=pair.tl.replace(rarest_tl, markup), en=pair.en,
\*       clozed_word=rarest_tl)
Cloze(pair, w) ==
    [tl |-> replace(pair.tl, w, Markup(w)), en |-> pair.en, clozed_word |-> w]

\* a row of all.csv
Row(cloze) ==
    <<capitalize(cloze.tl) \o <<" ", "(">> \o capitalize(cloze.en) \o <<")">>,
      cloze.clozed_word>>

----------------------------------------------------------------------------
(* Loading.                                                                *)

\* parse_sentences() over the rows of FILE; a row is [f1, f3], the two
\* fields the program reads (rows are taken to have the four fields)
parse_sentences(rows) ==
    LET made == [k \in 1..Len(rows) |->
                    Pair(lower(strip(rows[k].f3)), lower(strip(rows[k].f1)))]
    IN  SelectSeq(made, LAMBDA p :
            /\ ~(Len(p.tl_words) > WORD_LIMIT)
            /\ ~(p.en_words = <<>> \/ p.tl_words = <<>>))

----------------------------------------------------------------------------
(* Actions.                                                                *)

\* words(line), called on its own
Words ==
    /\ pc = "words"
    /\ l' = words(line)
    /\ pc' = "words_ret"
    /\ UNCHANGED <<line, corpus, pairs, tl_freq, tl_common, sorted_ret, i,
                   result, seen_en, seen_tl, skipped, clozes, cloze_count_tl,
                   skipped_limit, skipped_freq, rarest_tl, log, err, all_csv>>

\* pairs = parse_sentences()
ParseSentences ==
    /\ pc = "parse"
    /\ pairs' = parse_sentences(corpus)
    /\ pc' = "freq"
    /\ UNCHANGED <<line, l, corpus, tl_freq, tl_common, sorted_ret, i,
                   result, seen_en, seen_tl, skipped, clozes, cloze_count_tl,
                   skipped_limit, skipped_freq, rarest_tl, log, err, all_csv>>

\* tl_freq = language_frequency_table([pair.tl_words for pair in pairs])
LanguageFrequencyTable ==
    /\ pc = "freq"
    /\ LET r == language_frequency_table(
                    [k \in 1..Len(pairs) |-> pairs[k].tl_words])
       IN  IF r.ok
           THEN tl_freq' = r.val /\ pc' = "common" /\ err' = err
           ELSE tl_freq' = tl_freq /\ pc' = "failed" /\ err' = r.exc
    /\ UNCHANGED <<line, l, corpus, pairs, tl_common, sorted_ret, i,
                   result, seen_en, seen_tl, skipped, clozes, cloze_count_tl,
                   skipped_limit, skipped_freq, rarest_tl, log, all_csv>>

\* tl_common = most_common_words(tl_freq)
MostCommonWords ==
    /\ pc = "common"
    /\ tl_common' = most_common_words(tl_freq)
    /\ pc' = "sort"
    /\ UNCHANGED <<line, l, corpus, pairs, tl_freq, sorted_ret, i,
                   result, seen_en, seen_tl, skipped, clozes, cloze_count_tl,
                   skipped_limit, skipped_freq, rarest_tl, log, err, all_csv>>

\* the call sort_pairs(pairs, tl_freq) returns
SortPairs ==
    /\ pc = "sort"
    /\ sorted_ret' = sort_pairs(pairs, tl_freq)
    /\ pc' = "sort_ret"
    /\ UNCHANGED <<line, l, corpus, pairs, tl_freq, tl_common, i,
                   result, seen_en, seen_tl, skipped, clozes, cloze_count_tl,
                   skipped_limit, skipped_freq, rarest_tl, log, err, all_csv>>

\* pairs = <the sorted list>
AssignSorted ==
    /\ pc = "sort_ret"
    /\ pairs' = sorted_ret
    /\ pc' = "dedupe"
    /\ UNCHANGED <<line, l, corpus, tl_freq, tl_common, sorted_ret, i,
                   result, seen_en, seen_tl, skipped, clozes, cloze_count_tl,
                   skipped_limit, skipped_freq, rarest_tl, log, err, all_csv>>

\* one iteration of the loop of remove_duplicates
DedupeStep ==
    /\ pc = "dedupe"
    /\ i < Len(pairs)
    /\ LET pair == pairs[i + 1]
       IN  IF IsDuplicate(pair, seen_en, seen_tl)
           THEN /\ skipped' = skipped + 1
                /\ UNCHANGED <<result, seen_en, seen_tl>>
           ELSE /\ result' = Append(result, pair)
                /\ seen_en' = seen_en \cup {stripped(pair.en)}
                /\ seen_tl' = seen_tl \cup {stripped(pair.tl)}
                /\ skipped' = skipped
    /\ i' = i + 1
    /\ UNCHANGED <<pc, line, l, corpus, pairs, tl_freq, tl_common, sorted_ret,
                   clozes, cloze_count_tl, skipped_limit, skipped_freq,
                   rarest_tl, log, err, all_csv>>

\* remove_duplicates returns and main() rebinds pairs
DedupeReturn ==
    /\ pc = "dedupe"
    /\ i = Len(pairs)
    /\ pairs' = result
    /\ i' = 0
    /\ pc' = "first_last"
    /\ UNCHANGED <<line, l, corpus, tl_freq, tl_common, sorted_ret,
                   result, seen_en, seen_tl, skipped, clozes, cloze_count_tl,
                   skipped_limit, skipped_freq, rarest_tl, log, err, all_csv>>

\* pairs[0].dump(); pairs[-1].dump()
FirstLast ==
    /\ pc = "first_last"
    /\ IF pairs = <<>>
       THEN pc' = "failed" /\ err' = "IndexError"
       ELSE pc' = "build" /\ err' = err
    /\ UNCHANGED <<line, l, corpus, pairs, tl_freq, tl_common, sorted_ret, i,
                   result, seen_en, seen_tl, skipped, clozes, cloze_count_tl,
                   skipped_limit, skipped_freq, rarest_tl, log, all_csv>>

\* one iteration of the loop of build_clozes
ClozeStep ==
    /\ pc = "build"
    /\ i < Len(pairs)
    /\ LET pair == pairs[i + 1]
           r    == Rarest(pair, tl_freq)
           b    == Branch(cloze_count_tl, r, tl_common)
       IN  /\ rarest_tl' = r
           /\ log' = Append(log, b)
           /\ IF b = "limit"
              THEN /\ skipped_limit' = skipped_limit + 1
                   /\ UNCHANGED <<clozes, cloze_count_tl, skipped_freq>>
              ELSE IF b = "freq"
              THEN /\ skipped_freq' = skipped_freq + 1
                   /\ UNCHANGED <<clozes, cloze_count_tl, skipped_limit>>
              ELSE /\ clozes' = Append(clozes, Cloze(pair, r))
                   /\ cloze_count_tl' = CounterAdd(cloze_count_tl, r)
                   /\ UNCHANGED <<skipped_limit, skipped_freq>>
    /\ i' = i + 1
    /\ UNCHANGED <<pc, line, l, corpus, pairs, tl_freq, tl_common, sorted_ret,
                   result, seen_en, seen_tl, skipped, err, all_csv>>

\* build_clozes returns
ClozeReturn ==
    /\ pc = "build"
    /\ i = Len(pairs)
    /\ pc' = "dump"
    /\ UNCHANGED <<line, l, corpus, pairs, tl_freq, tl_common, sorted_ret, i,
                   result, seen_en, seen_tl, skipped, clozes, cloze_count_tl,
                   skipped_limit, skipped_freq, rarest_tl, log, err, all_csv>>

\* dump_all_clozes(clozes)
DumpAllClozes ==
    /\ pc = "dump"
    /\ all_csv' = [written |-> TRUE,
                   rows |-> [k \in 1..Len(clozes) |-> Row(clozes[k])]]
    /\ pc' = "done"
    /\ UNCHANGED <<line, l, corpus, pairs, tl_freq, tl_common, sorted_ret, i,
                   result, seen_en, seen_tl, skipped, clozes, cloze_count_tl,
                   skipped_limit, skipped_freq, rarest_tl, log, err>>

----------------------------------------------------------------------------
(* Inputs and specifications.                                              *)

\* the state on entry, before any local has been written
Entry(pc0, line0, corpus0, pairs0, freq0, common0) ==
    /\ pc = pc0
    /\ line = line0
    /\ l = <<>>
    /\ corpus = corpus0
    /\ pairs = pairs0
    /\ tl_freq = freq0
    /\ tl_common = common0
    /\ sorted_ret = <<>>
    /\ i = 0
    /\ result = <<>>
    /\ seen_en = {}
    /\ seen_tl = {}
    /\ skipped = 0
    /\ clozes = <<>>
    /\ cloze_count_tl = <<>>
    /\ skipped_limit = 0
    /\ skipped_freq = 0
    /\ rarest_tl = <<>>
    /\ log = <<>>
    /\ err = "none"
    /\ all_csv = [written |-> FALSE, rows |-> <<>>]

\* characters of the lines given to words()
Alphabet == {"a", "1", " ", "\t", ",", ".", "!", "?", "\"", "-"}

\* raw fields of the corpus file of a whole run
RawTl == {<<"a">>, <<"A", " ", "b">>, <<"b", ".">>, <<"a", " ", "a">>,
          <<"1">>}
RawEn == {<<"x">>, <<" ", "X", "!">>, <<"y">>}
Rows == {[f1 |-> t, f3 |-> e] : t \in RawTl, e \in RawEn}

\* the words of the frequency tables drawn as inputs, in insertion order
VocabSeq == <<<<"a">>, <<"a", "b">>>>
Vocab == {VocabSeq[k] : k \in 1..Len(VocabSeq)}

\* the Counters over Vocab with counts up to MaxFreq (a count of 0: no key)
Counters ==
    {SelectSeq([k \in 1..Len(VocabSeq) |-> [w |-> VocabSeq[k], n |-> f[k]]],
               LAMBDA item : item.n > 0) :
        f \in [1..Len(VocabSeq) -> 0..MaxFreq]}

\* target texts of the pairs given to sort_pairs and build_clozes
ClozeTexts == {<<"a">>, <<"a", "b", " ", "a">>, <<"a", " ", "a", "b">>}
SortTexts == ClozeTexts \cup {<<"a", "b">>, <<"a", "b", " ", "a", "b">>}

\* texts of the pairs given to remove_duplicates
DedupeEn == {<<"x">>, <<"x", ".">>, <<"x", " ", ".">>, <<"y">>}
DedupeTl == {<<"a">>, <<"a", "!">>, <<"a", ",", "b">>, <<"a", "b">>,
             <<"a", "?">>}

Init ==
    \E rows \in SeqsUpTo(Rows, MaxRows) :
        Entry("parse", <<>>, rows, <<>>, <<>>, {})

Next ==
    \/ ParseSentences
    \/ LanguageFrequencyTable
    \/ MostCommonWords
    \/ SortPairs
    \/ AssignSorted
    \/ DedupeStep
    \/ DedupeReturn
    \/ FirstLast
    \/ ClozeStep
    \/ ClozeReturn
    \/ DumpAllClozes

\* a whole run of main()
Spec == Init /\ [][Next]_vars

InitWords ==
    \E ln \in SeqsUpTo(Alphabet, MaxLineLen) :
        Entry("words", ln, <<>>, <<>>, <<>>, {})

\* words() on every line
SpecWords == InitWords /\ [][Words]_vars

InitSort ==
    \E ps \in SeqsUpTo({Pair(<<"x">>, t) : t \in SortTexts}, MaxSortPairs),
       tbl \in Counters :
        Entry("sort", <<>>, <<>>, ps, tbl, {})

\* sort_pairs() on every pair list and frequency table
SpecSort == InitSort /\ [][SortPairs]_vars

InitDedupe ==
    \E ps \in SeqsUpTo({Pair(e, t) : e \in DedupeEn, t \in DedupeTl},
                       MaxDedupePairs) :
        Entry("dedupe", <<>>, <<>>, ps, <<>>, {})

NextDedupe == DedupeStep \/ DedupeReturn

\* remove_duplicates() on every pair list
SpecDedupe == InitDedupe /\ [][NextDedupe]_vars

InitCloze ==
    \E ps \in SeqsUpTo({Pair(<<"x">>, t) : t \in ClozeTexts}, MaxClozePairs),
       tbl \in Counters,
       common \in SUBSET Vocab :
        Entry("build", <<>>, <<>>, ps, tbl, common)

NextCloze == ClozeStep \/ ClozeReturn

\* build_clozes() on every pair list, frequency table and common-word set
SpecCloze == InitCloze /\ [][NextCloze]_vars

----------------------------------------------------------------------------
(* Properties of build_clozes, checked under SpecCloze.                    *)

\* the tokens at which ws takes its least frequency, first one first
FirstMinimalIndex(ws, tbl) ==
    CHOOSE k \in 1..Len(ws) :
        /\ \A m \in 1..Len(ws) : Count(tbl, ws[k]) <= Count(tbl, ws[m])
        /\ \A m \in 1..(k - 1) : Count(tbl, ws[m]) > Count(tbl, ws[k])

\* the rarest target token of a pair, as the specification defines it
RarestOf(pair) == pair.tl_words[FirstMinimalIndex(pair.tl_words, tl_freq)]

\* the processed pairs whose rarest target token is w
PairsOf(w) == {j \in 1..i : RarestOf(pairs[j]) = w}

\* the emitted records that blank w
ClozesOf(w) == {k \in 1..Len(clozes) : clozes[k].clozed_word = w}

\* the words that were counted or blanked so far
UsedWords ==
    {cloze_count_tl[k].w : k \in 1..Len(cloze_count_tl)}
        \cup {clozes[k].clozed_word : k \in 1..Len(clozes)}

Min(a, b) == IF a < b THEN a ELSE b

\* C1: after every prefix of the pairs, each word is the clozed_word of at
\* most CLOZE_LIMIT emitted records, and its used-count equals the number of
\* records emitted for it and never exceeds CLOZE_LIMIT.
C1_ClozeLimit ==
    \A w \in UsedWords \cup Vocab :
        /\ Cardinality(ClozesOf(w)) <= CLOZE_LIMIT
        /\ Count(cloze_count_tl, w) = Cardinality(ClozesOf(w))
        /\ Count(cloze_count_tl, w) <= CLOZE_LIMIT

\* a word has reached the limit and a later pair was skipped for it
C1_Witness ==
    /\ skipped_limit > 0
    /\ \E w \in UsedWords : Count(cloze_count_tl, w) = CLOZE_LIMIT

\* whether w stands at position k of text as a whole token
TokenAt(text, w, k) ==
    /\ OccursAt(text, w, k)
    /\ (k = 1 \/ text[k - 1] \in WORD_BOUNDARY)
    /\ (k + Len(w) > Len(text) \/ text[k + Len(w)] \in WORD_BOUNDARY)

\* text with the occurrence of w at position k wrapped in cloze markup
WrapAt(text, w, k) ==
    SubSeq(text, 1, k - 1) \o Markup(w) \o SubSeq(text, k + Len(w), Len(text))

\* C2: the record emitted for a pair has the pair's target text with exactly
\* one occurrence of the blanked word wrapped in {{c1::word}}, the first
\* occurrence of the rarest token; every other character, later occurrences
\* and occurrences inside other words included, is unchanged.
C2_OneOccurrenceWrapped ==
    (pc = "build" /\ i > 0 /\ log[i] = "cloze") =>
        LET text  == pairs[i].tl
            first == CHOOSE k \in 1..Len(text) :
                         /\ TokenAt(text, rarest_tl, k)
                         /\ \A j \in 1..(k - 1) : ~TokenAt(text, rarest_tl, j)
        IN  clozes[Len(clozes)].tl = WrapAt(text, rarest_tl, first)

\* C7: a pair whose rarest target token is not in the common-word set emits
\* no record, whatever the used-count of the token, and the step leaves the
\* used-counts unchanged.
C7_CommonGate ==
    [][(pc = "build" /\ i' = i + 1 /\ rarest_tl' \notin tl_common)
          => (clozes' = clozes /\ cloze_count_tl' = cloze_count_tl)]_vars

\* a pair was skipped under the cutoff while its word had never been used
C7_Witness ==
    /\ i > 0
    /\ log[i] = "freq"
    /\ rarest_tl \notin tl_common
    /\ Count(cloze_count_tl, rarest_tl) = 0
    /\ Len(clozes) > 0

\* what C8 says of the pairs whose rarest token is w
LimitRule(w) ==
    LET J       == PairsOf(w)
        n       == Cardinality(J)
        rank(j) == Cardinality({k \in J : k <= j})
    IN  /\ Cardinality({j \in J : log[j] = "cloze"}) = Min(n, CLOZE_LIMIT)
        /\ Cardinality(ClozesOf(w)) = Min(n, CLOZE_LIMIT)
        /\ \A j \in J : (log[j] = "cloze") <=> (rank(j) <= CLOZE_LIMIT)
        /\ \A j \in J : rank(j) > CLOZE_LIMIT => log[j] = "limit"

\* C8 as stated: if w is the rarest target token of n pairs, exactly
\* min(n, CLOZE_LIMIT) of them produce a cloze for w, the first ones in input
\* order, and each of the others is skipped under the 'limit' reason.
C8_Original ==
    /\ \A w \in Vocab : LimitRule(w)
    /\ skipped_limit = Cardinality({j \in 1..i : log[j] = "limit"})

\* C8 amended: the same, for every w in the common-word set.
C8_LimitRuleForCommonWords ==
    /\ \A w \in Vocab : w \in tl_common => LimitRule(w)
    /\ skipped_limit = Cardinality({j \in 1..i : log[j] = "limit"})

\* a common word is the rarest token of five pairs: three clozes, two skips
C8_Witness ==
    \E w \in tl_common :
        /\ Cardinality(PairsOf(w)) = 5
        /\ Cardinality(ClozesOf(w)) = 3
        /\ skipped_limit = 2

\* C9: the word selected for blanking is a token of the pair of least
\* frequency, the first such token under ties; a pair whose selected token
\* is skipped yields no cloze for any other token of its sentence.
C9_FirstMinimizer ==
    /\ i > 0 =>
          LET ws == pairs[i].tl_words
          IN  \E k \in 1..Len(ws) :
                  /\ ws[k] = rarest_tl
                  /\ \A m \in 1..Len(ws) :
                         Count(tl_freq, ws[k]) <= Count(tl_freq, ws[m])
                  /\ \A m \in 1..(k - 1) :
                         Count(tl_freq, ws[m]) > Count(tl_freq, ws[k])
    /\ Len(clozes) = Cardinality({j \in 1..i : log[j] = "cloze"})
    /\ (i > 0 /\ log[i] = "cloze") =>
          clozes[Len(clozes)].clozed_word = rarest_tl

\* two different tokens tie for the least frequency, and the pair is skipped
C9_Witness ==
    /\ i > 0
    /\ log[i] # "cloze"
    /\ LET ws == pairs[i].tl_words
       IN  \E k, m \in 1..Len(ws) :
               /\ k < m
               /\ ws[k] = rarest_tl
               /\ ws[m] # ws[k]
               /\ Count(tl_freq, ws[m]) = Count(tl_freq, ws[k])

\* the loop body with the common-word test made before the limit test
SwappedBranch(cnt, w, common) ==
    IF w \notin common THEN "freq"
    ELSE IF Count(cnt, w) = CLOZE_LIMIT THEN "limit"
    ELSE "cloze"

\* C10: a pair is counted as 'skipped: limit' only for a word of the common
\* set (a used-count is positive only for a common word), so testing the
\* common set before the limit would take the same branch at every step; and
\* emitted + skipped_limit + skipped_freq is the number of pairs processed.
C10_LimitOnlyForCommonWords ==
    /\ \A j \in 1..i : log[j] = "limit" => RarestOf(pairs[j]) \in tl_common
    /\ \A w \in UsedWords : Count(cloze_count_tl, w) > 0 => w \in tl_common
    /\ (pc = "build" /\ i < Len(pairs)) =>
          LET r == RarestOf(pairs[i + 1])
          IN  Branch(cloze_count_tl, r, tl_common)
                  = SwappedBranch(cloze_count_tl, r, tl_common)
    /\ Len(clozes) + skipped_limit + skipped_freq = i

\* both kinds of skip have happened, the limit skip last
C10_Witness ==
    /\ i > 0
    /\ log[i] = "limit"
    /\ skipped_limit > 0
    /\ skipped_freq > 0

----------------------------------------------------------------------------
(* Properties of remove_duplicates, checked under SpecDedupe.              *)

\* a text with '!', '.' and ',' removed and the whitespace trimmed
Normalized(text) ==
    strip(SelectSeq(text, LAMBDA c : c \notin {"!", ".", ","}))

\* the elements of s at the positions in S, in their order in s
Restrict(s, S) ==
    LET acc[k \in 0..Len(s)] ==
            IF k = 0 THEN <<>>
            ELSE IF k \in S THEN Append(acc[k - 1], s[k]) ELSE acc[k - 1]
    IN  acc[Len(s)]

\* whether pairs j and k have the same normalized target or source text
SameText(j, k) ==
    \/ Normalized(pairs[j].tl) = Normalized(pairs[k].tl)
    \/ Normalized(pairs[j].en) = Normalized(pairs[k].en)

\* C3: the kept pairs are a subsequence of the input in its order; no two
\* kept pairs share a normalized target text or a normalized source text; a
\* pair is dropped exactly when one of its normalized texts is that of a
\* pair kept before it; a dropped pair registers nothing in the seen-sets.
C3_Dedupe ==
    pc = "dedupe" =>
        \E S \in SUBSET (1..i) :
            /\ result = Restrict(pairs, S)
            /\ \A j \in 1..i :
                   (j \notin S) <=> (\E k \in S : k < j /\ SameText(j, k))
            /\ \A j, k \in S : j # k => ~SameText(j, k)
            /\ seen_en = {Normalized(pairs[k].en) : k \in S}
            /\ seen_tl = {Normalized(pairs[k].tl) : k \in S}
            /\ skipped = i - Cardinality(S)

\* the loop is over, two pairs were kept, and a pair was dropped whose raw
\* texts are both new: only the normalized forms collide
C3_Witness ==
    /\ pc = "dedupe"
    /\ i = Len(pairs)
    /\ Len(result) >= 2
    /\ \E j \in 1..i :
           /\ \A k \in 1..Len(result) :
                  result[k].en # pairs[j].en /\ result[k].tl # pairs[j].tl
           /\ \E k \in 1..(j - 1) :
                  Normalized(pairs[k].tl) = Normalized(pairs[j].tl)

----------------------------------------------------------------------------
(* Properties of words, checked under SpecWords.                           *)

\* the delimiters the specification lists
ListedDelimiters == Whitespace \cup {",", ".", "!", "\""}

\* the maximal fragments of ln free of the characters of D, in order,
\* without those made only of decimal digits
Fragments(ln, D) ==
    LET starts == {a \in 1..Len(ln) :
                      ln[a] \notin D /\ (a = 1 \/ ln[a - 1] \in D)}
        end(a) == CHOOSE b \in a..Len(ln) :
                      /\ \A k \in a..b : ln[k] \notin D
                      /\ (b = Len(ln) \/ ln[b + 1] \in D)
        acc[k \in 0..Len(ln)] ==
            IF k = 0 THEN <<>>
            ELSE IF k \in starts
                 THEN Append(acc[k - 1], SubSeq(ln, k, end(k)))
                 ELSE acc[k - 1]
    IN  SelectSeq(acc[Len(ln)],
                  LAMBDA w : \E k \in 1..Len(w) : w[k] \notin Digits)

\* C4 as stated: the tokens are the maximal fragments between runs of
\* whitespace, comma, period, exclamation mark and double-quote, all-digit
\* fragments removed; no other character separates tokens.
C4_Original ==
    pc = "words_ret" => l = Fragments(line, ListedDelimiters)

\* C4 amended: the same with the question mark among the delimiters.
C4_TokensWithQuestionMark ==
    pc = "words_ret" => l = Fragments(line, ListedDelimiters \cup {"?"})

\* a question mark separates two tokens, next to an all-digit fragment
C4_Witness ==
    /\ pc = "words_ret"
    /\ Len(l) = 1
    /\ \E k \in 2..(Len(line) - 1) :
           line[k] = "?" /\ line[k - 1] = "a" /\ line[k + 1] = "1"

----------------------------------------------------------------------------
(* Properties of sort_pairs, checked under SpecSort.                       *)

\* the sum of the frequencies of the target tokens of p
FreqSum(p) ==
    LET ws == p.tl_words
        sum[k \in 0..Len(ws)] ==
            IF k = 0 THEN 0 ELSE sum[k - 1] + Count(tl_freq, ws[k])
    IN  sum[Len(ws)]

\* score(p) > score(q) and score(p) = score(q), for
\* score(p) = (FreqSum(p) / length) / length
Higher(p, q) ==
    FreqSum(p) * Len(q.tl_words) * Len(q.tl_words)
        > FreqSum(q) * Len(p.tl_words) * Len(p.tl_words)
Level(p, q) ==
    FreqSum(p) * Len(q.tl_words) * Len(q.tl_words)
        = FreqSum(q) * Len(p.tl_words) * Len(p.tl_words)

Rearrangements(n) ==
    {f \in [1..n -> 1..n] : \A a, b \in 1..n : a # b => f[a] # f[b]}

----------------------------------------------------------------------------
(* Properties of a whole run, checked under Spec.                          *)

\* C6: when no pair survives loading, the run ends in an explicit "no data"
\* error: no division by zero, no out-of-bounds access or minimum of an
\* empty collection; and no output file is written.
C6_EmptyInputGuarded ==
    pc = "failed" =>
        /\ err \notin {"IndexError", "ValueError", "ZeroDivisionError"}
        /\ ~all_csv.written

====
